---- MODULE Spec2Model ----
(***************************************************************************)
(* Model of jvd: the disassembly cache orchestrator                        *)
(* (src/jvd/disassembler.py) and the resource acquisition cache            *)
(* (src/jvd/resources.py).                                                 *)
(*                                                                         *)
(* The file system is part of the state: the cache file                    *)
(* file+ext+'.asm.json.gz', the workspace directory file+ext+'.tmp' and    *)
(* the result file the backend writes into it.  disassemble is modelled    *)
(* statement group by statement group; each step is one file-system        *)
(* operation of the code, and a call, once started, can only go forward.   *)
(***************************************************************************)
EXTENDS Integers, Sequences, FiniteSets, TLC

\* ------------------------------------------------------------ bounds
MaxFiles == 2
MaxBlocks == 2
MaxTime == 2

\* ------------------------------------------------------------ values
FileNames == <<"a.bin", "b.bin", "c.bin", "d.bin", "e.bin">>
\* the file the single calls work on, and the files of a batch
Files == {FileNames[1]}
BatchFiles == {FileNames[i] : i \in 1..MaxFiles}
\* additional_ext: the default '' and one non-empty suffix
Exts == {"", ".x"}
\* verbose: the default -1 and a value above the re-raise threshold
Verbosity == {-1, 2}
\* file_type argument: None or an explicit type
FileTypeArgs == {"None", "pe"}
Procs == {1}
\* the processes of the worker pool of a batch
Workers == {1, 2}

\* get_file_type(file): the sniffed type of a file
GetFileType(f) == "auto"

\* One block list a backend may produce: [{addr 10, calls [20]}, {addr 20, calls [999]}]
ExampleBlocks ==
    << [addr_start |-> 10, calls |-> <<20>>],
       [addr_start |-> 20, calls |-> <<999>>] >>

\* Content of a path holding (or not) a gzip+JSON record.
\*   kind    "absent" (no file), "corrupt" (not gzip+JSON), "rec" (a record)
\*   top     the record has a top-level key 'f_type'
\*   f_type  res['bin']['f_type'], "None" when the key is missing
\*   hasCfg  the record has the key 'cfg';  hasCapa  it has the key 'capa'
Absent ==
    [kind |-> "absent", top |-> FALSE, f_type |-> "None", blocks |-> <<>>,
     hasCfg |-> FALSE, cfg |-> <<>>, hasCapa |-> FALSE]
Corrupt == [Absent EXCEPT !.kind = "corrupt"]
Rec(ft, bl) == [Absent EXCEPT !.kind = "rec", !.f_type = ft, !.blocks = bl]

\* What a backend leaves in output_file_path when it returns normally.
BackendOutputs ==
    { Rec("None", ExampleBlocks), Corrupt }

\* ------------------------------------------------------------ _cfg
\* Blk2Ind counting the blocks from 1
Blk2Ind_OneBased(blocks) ==
    [a \in {blocks[i].addr_start : i \in 1..Len(blocks)} |->
        CHOOSE i \in 1..Len(blocks) :
            /\ blocks[i].addr_start = a
            /\ \A j \in 1..Len(blocks) : blocks[j].addr_start = a => j <= i]

\* blk2ind: addr_start -> index (0-based) of the last block with that address
Blk2Ind(blocks) ==
    [a \in {blocks[i].addr_start : i \in 1..Len(blocks)} |->
        (CHOOSE i \in 1..Len(blocks) :
            /\ blocks[i].addr_start = a
            /\ \A j \in 1..Len(blocks) : blocks[j].addr_start = a => j <= i) - 1]

RECURSIVE CallEdges(_, _, _)
\* the edges of one block: for c in b['calls'] if c in blk2ind
CallEdges(blk2ind, src, calls) ==
    IF calls = <<>> THEN <<>>
    ELSE (IF Head(calls) \in DOMAIN blk2ind
             THEN << <<blk2ind[src], blk2ind[Head(calls)]>> >>
             ELSE <<>>)
         \o CallEdges(blk2ind, src, Tail(calls))

RECURSIVE AdjSp(_, _, _)
\* for b in res['blocks'] (from index i on)
AdjSp(blk2ind, blocks, i) ==
    IF i > Len(blocks) THEN <<>>
    ELSE CallEdges(blk2ind, blocks[i].addr_start, blocks[i].calls)
         \o AdjSp(blk2ind, blocks, i + 1)

CfgOf(blocks) == AdjSp(Blk2Ind(blocks), blocks, 1)

\* _cfg(res): res['cfg'] = adj_sp
Cfg(res) == [res EXCEPT !.cfg = CfgOf(res.blocks), !.hasCfg = TRUE]

\* ------------------------------------------------------------ resources
\* the url a descriptor may hold in each of its four fields ("None": not set)
UrlOf == [default |-> "http://d/tool.zip", linux |-> "http://l/tool.zip",
          darwin |-> "http://m/tool-mac.zip", windows |-> "http://w/tool-win.zip"]
Urls == {UrlOf[k] : k \in DOMAIN UrlOf}
\* platform.system().lower()
Platforms == {"linux", "darwin", "windows"}
\* ResourceAbstract.home; cache(root) is given it too (the default of cache_all)
Home == "~/jv-dependencies"
Roots == {Home}
\* the class names of the known resource kinds, in __subclasses__() order
KindNames == <<"Ghidra", "Capa">>
\* str.lower() on the names in use
Lower(s) ==
    CASE s \in {"Ghidra", "GHIDRA", "ghidra"} -> "ghidra"
      [] s \in {"Capa", "CAPA", "capa"} -> "capa"
      [] OTHER -> s
\* lines 50-52: folder = os.path.join(home, self.__class__.__name__.lower())
FolderOf(home, name) == home \o "/" \o Lower(name)
Folders == {FolderOf(h, KindNames[k]) : h \in Roots, k \in DOMAIN KindNames}
\* fn_from_url(url): the last segment of the url
FnFromUrl(u) ==
    CASE u = "http://d/tool.zip" -> "tool.zip"
      [] u = "http://l/tool.zip" -> "tool.zip"
      [] u = "http://m/tool-mac.zip" -> "tool-mac.zip"
      [] OTHER -> "tool-win.zip"
Names == {FnFromUrl(u) : u \in Urls}
\* a path that holds no file / no directory
\*   mtime: the time the file was written; from: the mtime of the archive extracted
NoFile == [exists |-> FALSE, mtime |-> 0]
NoDir == [exists |-> FALSE, from |-> 0]

\* ------------------------------------------------------------ state
VARIABLES
    cache,      \* cache[f][x]: content of f + x + '.asm.json.gz'
    tmpDir,     \* tmpDir[f][x]: the directory f + x + '.tmp' exists
    tmpOut,     \* tmpOut[f][x]: content of new_file_js inside that directory
    inputFile,  \* inputFile[f]: content of the input file f
    call,       \* call[p]: arguments, locals and position of invocation p
    ranBackend, \* ranBackend[f][x]: _process has been run for that cache path
    batch,      \* the running disassemble_all: arguments, position, yielded pairs
    cfgRes,     \* the record a direct call of _cfg works on
    desc,       \* the resource instance: its class name and descriptor, the platform
                \* and the online flag
    disk,       \* disk[d][n]: the file n and the directory n_unpacked in folder d
    remote,     \* remote[u]: Last-Modified time of the content served at url u
    now,        \* the clock
    rcall,      \* the last get()/cache() call: what it did and returned
    reg         \* the known resource kinds and the running require()/cache_all()

fs == <<cache, tmpDir, tmpOut, inputFile>>
disVars == <<cache, tmpDir, tmpOut, inputFile, call, ranBackend, batch>>
resVars == <<desc, disk, remote, now, rcall, reg>>
vars == <<disVars, cfgRes, resVars>>

NoCall ==
    [pc |-> "idle", file |-> FileNames[1], ext |-> "", cleanup |-> FALSE,
     cfg |-> FALSE, capa |-> FALSE, no_result |-> FALSE, file_type |-> "None",
     verbose |-> -1, log |-> <<>>, out_log |-> <<>>, res |-> Absent,
     ret |-> "none", pend |-> "none", exc |-> "none", hit |-> FALSE,
     ranCfg |-> FALSE, ranCapa |-> FALSE, wrote |-> FALSE]

\* disassemble_all is not running
NoBatch ==
    [pc |-> "idle", files |-> <<>>, multiprocessing |-> FALSE, cleanup |-> FALSE,
     cfg |-> FALSE, capa |-> FALSE, verbose |-> -1, sub |-> 1,
     job |-> [p \in Workers |-> 0], out |-> <<>>, printed |-> <<>>, exc |-> "none"]

\* no resource call has run: lines 32-40, the defaults of a descriptor
NoRCall ==
    [op |-> "none", url |-> "None", outcome |-> "none", ret |-> "None",
     downloads |-> 0, metas |-> 0, check |-> "none", removed |-> FALSE,
     extracted |-> FALSE]
NoDesc ==
    [name |-> KindNames[1],
     linux |-> "None", windows |-> "None", darwin |-> "None", default |-> "None",
     unpack |-> FALSE, check_update |-> FALSE, with_permission |-> FALSE,
     platform |-> "linux", online |-> FALSE]
\* no require()/cache_all() has run; kinds[k]: what the constructor of the k-th
\* subclass sets; called: the kinds cache(root) was called on
NoReg ==
    [kinds |-> <<>>, op |-> "none", library |-> "", root |-> Home, i |-> 0,
     pc |-> "idle", ret |-> "None", exc |-> "none", called |-> {}]
EmptyDisk == [h \in Folders |-> [n \in Names |-> [file |-> NoFile, unpacked |-> NoDir]]]
NoResource ==
    /\ desc = NoDesc
    /\ disk = EmptyDisk
    /\ remote = [u \in Urls |-> 0]
    /\ now = 1
    /\ rcall = NoRCall
    /\ reg = NoReg

\* an empty file system over the files fl, no call running
InitFs(fl, ps) ==
    /\ cache = [f \in fl |-> [x \in Exts |-> Absent]]
    /\ tmpDir = [f \in fl |-> [x \in Exts |-> FALSE]]
    /\ tmpOut = [f \in fl |-> [x \in Exts |-> Absent]]
    /\ inputFile = [f \in fl |-> "original"]
    /\ call = [p \in ps |-> NoCall]
    /\ ranBackend = [f \in fl |-> [x \in Exts |-> FALSE]]

Init ==
    /\ InitFs(Files, Procs)
    /\ batch = NoBatch
    /\ cfgRes = Absent
    /\ NoResource

Ended(p) == call[p].pc \in {"returned", "raised"}
Free(p) == call[p].pc = "idle" \/ Ended(p)

\* ------------------------------------------------------------ disassemble
\* line 41 with the suffix forgotten: os.path.exists(file + '.asm.json.gz')
CacheExists_NoSuffix(f, x) == cache[f][""].kind /= "absent"

\* line 41: os.path.exists(js_file)
CacheExists(f, x) == cache[f][x].kind /= "absent"

\* lines 33-44: entry; js_file, res, log, file_type; if os.path.exists(js_file)
Enter(p, f, x, cl, cg, cp, nr, ft, vb) ==
    LET c == [NoCall EXCEPT !.file = f, !.ext = x, !.cleanup = cl,
                 !.cfg = cg, !.capa = cp, !.no_result = nr,
                 !.file_type = IF ft /= "None" THEN ft ELSE GetFileType(f),
                 !.verbose = vb] IN
    /\ Free(p)
    /\ call' = [call EXCEPT ![p] =
          IF CacheExists(f, x)
          THEN [c EXCEPT !.pc = "read", !.hit = TRUE,
                   !.log = <<"directly reading the generated json file">>]
          ELSE [c EXCEPT !.pc = "mkdir"]]
    /\ UNCHANGED <<cache, tmpDir, tmpOut, inputFile, ranBackend, cfgRes, resVars>>

\* a caller invokes disassemble with some arguments
Start(p) ==
    /\ \E f \in Files, x \in Exts, cl \in BOOLEAN, cg \in BOOLEAN, cp \in BOOLEAN,
          nr \in BOOLEAN, ft \in FileTypeArgs, vb \in Verbosity :
            Enter(p, f, x, cl, cg, cp, nr, ft, vb)
    /\ UNCHANGED <<batch, cfgRes, resVars>>

\* Caught re-raising whatever the verbosity
Caught_Reraise(c, msg) ==
    [c EXCEPT !.pc = "rmtree", !.log = Append(c.log, msg), !.exc = msg,
              !.pend = "raise"]

\* lines 58-62: except Exception as e
Caught(c, msg) ==
    [c EXCEPT !.pc = "rmtree", !.log = Append(c.log, msg), !.exc = msg,
              !.pend = IF c.verbose > 1 THEN "raise" ELSE "return_none"]

\* line 46: os.mkdir(tmp_folder)
MkdirOutcomes(exists) == IF exists THEN {"FileExistsError"} ELSE {"ok", "OSError"}

Mkdir(p) ==
    LET c == call[p] IN
    /\ c.pc = "mkdir"
    /\ \E o \in MkdirOutcomes(tmpDir[c.file][c.ext]) :
        /\ tmpDir' = [tmpDir EXCEPT ![c.file][c.ext] = (@ \/ o = "ok")]
        /\ call' = [call EXCEPT ![p] =
              IF o = "ok" THEN [c EXCEPT !.pc = "copy_in"] ELSE Caught(c, o)]
    /\ UNCHANGED <<cache, tmpOut, inputFile, ranBackend, batch, cfgRes, resVars>>

\* lines 47-50: copyfile(file, new_file)
CopyIn(p) ==
    LET c == call[p] IN
    /\ c.pc = "copy_in"
    /\ \E o \in (IF tmpDir[c.file][c.ext] THEN {"ok", "copy failed"}
                                           ELSE {"FileNotFoundError"}) :
        call' = [call EXCEPT ![p] =
              IF o = "ok" THEN [c EXCEPT !.pc = "process"] ELSE Caught(c, o)]
    /\ UNCHANGED <<cache, tmpDir, tmpOut, inputFile, ranBackend, batch, cfgRes, resVars>>

\* lines 51-52: _, out_log = self._process(new_file, file_type, new_file_js, decompile)
Process(p) ==
    LET c == call[p] IN
    /\ c.pc = "process"
    /\ ranBackend' = [ranBackend EXCEPT ![c.file][c.ext] = TRUE]
    /\ \E o \in BackendOutputs \cup {Absent} :
        IF o.kind = "absent"
        THEN /\ call' = [call EXCEPT ![p] = Caught(c, "backend failed")]
             /\ UNCHANGED tmpOut
        ELSE /\ call' = [call EXCEPT ![p] =
                    [c EXCEPT !.pc = "copy_out", !.out_log = <<"backend log">>]]
             /\ tmpOut' = [tmpOut EXCEPT ![c.file][c.ext] =
                              IF tmpDir[c.file][c.ext] THEN o ELSE @]
    /\ UNCHANGED <<cache, tmpDir, inputFile, batch, cfgRes, resVars>>

\* lines 53-57: copyfile(new_file_js, js_file); log.extend(log)
CopyOut(p) ==
    LET c == call[p]
        src == tmpOut[c.file][c.ext] IN
    /\ c.pc = "copy_out"
    /\ \E o \in (IF tmpDir[c.file][c.ext] /\ src.kind /= "absent"
                    THEN {"ok", "copy failed"} ELSE {"FileNotFoundError"}) :
        IF o = "ok"
        THEN /\ cache' = [cache EXCEPT ![c.file][c.ext] = src]
             /\ call' = [call EXCEPT ![p] =
                    [c EXCEPT !.pc = "rmtree", !.pend = "continue",
                              !.log = c.log \o c.log]]
        ELSE /\ call' = [call EXCEPT ![p] = Caught(c, o)]
             /\ UNCHANGED cache
    /\ UNCHANGED <<tmpDir, tmpOut, inputFile, ranBackend, batch, cfgRes, resVars>>

\* Rmtree as the last statement of the try block instead of a finally block
Rmtree_NotFinally(p) ==
    LET c == call[p] IN
    /\ c.pc = "rmtree"
    /\ tmpDir' = [tmpDir EXCEPT ![c.file][c.ext] = IF c.pend = "continue" THEN FALSE ELSE @]
    /\ tmpOut' = [tmpOut EXCEPT ![c.file][c.ext] = IF c.pend = "continue" THEN Absent ELSE @]
    /\ call' = [call EXCEPT ![p] =
          [c EXCEPT !.pc = CASE c.pend = "continue" -> "read"
                             [] c.pend = "raise" -> "raised"
                             [] OTHER -> "returned",
                    !.exc = IF c.pend = "raise" THEN @ ELSE "none",
                    !.pend = "none"]]
    /\ UNCHANGED <<cache, inputFile, ranBackend, batch, cfgRes, resVars>>

\* lines 63-65: finally: rmtree(tmp_folder)
Rmtree(p) ==
    LET c == call[p] IN
    /\ c.pc = "rmtree"
    /\ IF tmpDir[c.file][c.ext]
       THEN /\ tmpDir' = [tmpDir EXCEPT ![c.file][c.ext] = FALSE]
            /\ tmpOut' = [tmpOut EXCEPT ![c.file][c.ext] = Absent]
            /\ call' = [call EXCEPT ![p] =
                  [c EXCEPT !.pc = CASE c.pend = "continue" -> "read"
                                     [] c.pend = "raise" -> "raised"
                                     [] OTHER -> "returned",
                            !.exc = IF c.pend = "raise" THEN @ ELSE "none",
                            !.pend = "none"]]
       ELSE \* rmtree of a missing directory raises out of the finally block
            /\ call' = [call EXCEPT ![p] =
                  [c EXCEPT !.pc = "raised", !.pend = "none",
                            !.exc = "FileNotFoundError"]]
            /\ UNCHANGED <<tmpDir, tmpOut>>
    /\ UNCHANGED <<cache, inputFile, ranBackend, batch, cfgRes, resVars>>

\* Failed re-raising whatever the verbosity
Failed_Reraise(c, msg) ==
    [c EXCEPT !.pc = "raised", !.exc = msg,
              !.log = Append(c.log, "Failed " \o c.file \o " msg: " \o msg)]

\* lines 89-94: except Exception as e (second try), then the finally block
Failed(c, msg) ==
    [c EXCEPT !.pc = IF c.verbose > 1 THEN "raised" ELSE "returned",
              !.exc = IF c.verbose > 1 THEN msg ELSE "none",
              !.log = Append(c.log, "Failed " \o c.file \o " msg: " \o msg)]

\* lines 70-72: if 'f_type' not in res: res['bin']['f_type'] = file_type
SetFType(r, file_type) == IF ~r.top THEN [r EXCEPT !.f_type = file_type] ELSE r
\* NeedCfg without the test for an existing 'cfg'
NeedCfg_Always(c, r) == c.cfg

\* lines 73-75: if cfg and 'cfg' not in res: self._cfg(res)
NeedCfg(c, r) == c.cfg /\ ~r.hasCfg
\* lines 76-78: if capa and 'capa' not in res: res['capa'] = capa_analyze(...)
NeedCapa(c, r) == c.capa /\ ~r.hasCapa
\* lines 69-79: the changed flag
Changed(c, r) == ~r.top \/ NeedCfg(c, r) \/ NeedCapa(c, r)

\* lines 117-121: cleanup(file): js_file = file + '.asm.json.gz'
CleanupFile(cch, f) == [cch EXCEPT ![f][""] = Absent]

\* lines 95-100: finally: if cleanup: self.cleanup(file)
Finally(c, cch) == IF c.cleanup THEN CleanupFile(cch, c.file) ELSE cch

\* lines 67-100: read the cache file, augment, write back, return; finally clean up
Augment(p) ==
    LET c == call[p]
        r0 == cache[c.file][c.ext]
        r1 == SetFType(r0, c.file_type)
        r2 == IF NeedCfg(c, r0) THEN Cfg(r1) ELSE r1
        r3 == IF NeedCapa(c, r0) THEN [r2 EXCEPT !.hasCapa = TRUE] ELSE r2
    IN
    /\ c.pc = "read"
    /\ IF r0.kind /= "rec"
       THEN /\ call' = [call EXCEPT ![p] = Failed(c, "read_gz_js")]
            /\ cache' = Finally(c, cache)
       ELSE \E o \in (IF NeedCapa(c, r0) THEN {"ok", "capa_analyze"} ELSE {"ok"}) :
            IF o /= "ok"
            THEN /\ call' = [call EXCEPT ![p] =
                       [Failed(c, o) EXCEPT !.ranCfg = NeedCfg(c, r0),
                                            !.ranCapa = TRUE]]
                 /\ cache' = Finally(c, cache)
            ELSE /\ cache' = Finally(c, [cache EXCEPT ![c.file][c.ext] =
                                            IF Changed(c, r0) THEN r3 ELSE @])
                 /\ call' = [call EXCEPT ![p] =
                       [c EXCEPT !.pc = "returned", !.res = r3,
                                 !.ranCfg = NeedCfg(c, r0), !.ranCapa = NeedCapa(c, r0),
                                 !.wrote = Changed(c, r0),
                                 !.ret = IF c.no_result THEN "path" ELSE "record"]]
    /\ UNCHANGED <<tmpDir, tmpOut, inputFile, ranBackend, batch, cfgRes, resVars>>

Step(p) ==
    \/ Mkdir(p)
    \/ CopyIn(p)
    \/ Process(p)
    \/ CopyOut(p)
    \/ Rmtree(p)
    \/ Augment(p)

\* Sequential use: one invocation at a time.
Next == \E p \in Procs : Start(p) \/ Step(p)

Spec == Init /\ [][Next]_vars

\* ------------------------------------------------------------ overlapping calls
\* Two callers (threads or processes) invoke disassemble on the same file and
\* suffix; their steps interleave.
InitOverlap ==
    /\ InitFs(Files, Workers)
    /\ batch = NoBatch
    /\ cfgRes = Absent
    /\ NoResource

\* caller p invokes disassemble(file, verbose=vb) with the other defaults
StartOverlap(p) ==
    /\ \E f \in Files, vb \in Verbosity :
          Enter(p, f, "", FALSE, FALSE, FALSE, FALSE, "None", vb)
    /\ UNCHANGED batch

NextOverlap == \E p \in Workers : StartOverlap(p) \/ Step(p)

SpecOverlap == InitOverlap /\ [][NextOverlap]_vars

\* ------------------------------------------------------------ disassemble_all
\* lines 123-140: the arguments and the resolved file list
InitBatch ==
    /\ cfgRes = Absent
    /\ NoResource
    /\ InitFs(BatchFiles, Workers)
    /\ \E n \in 0..MaxFiles, mp \in BOOLEAN, cl \in BOOLEAN, cg \in BOOLEAN,
          cp \in BOOLEAN, vb \in Verbosity :
        batch = [NoBatch EXCEPT !.pc = "run", !.files = SubSeq(FileNames, 1, n),
                    !.multiprocessing = mp, !.cleanup = cl, !.cfg = cg, !.capa = cp,
                    !.verbose = vb]

\* lines 146-148, 156-158: self.disassemble(f, decompile, cleanup, cfg, no_result=True, capa, verbose)
BatchCall(p) ==
    /\ batch.pc = "run"
    /\ batch.job[p] = 0
    /\ batch.sub <= Len(batch.files)
    /\ Enter(p, batch.files[batch.sub], "", batch.cleanup, batch.cfg, batch.capa,
             TRUE, "None", batch.verbose)
    /\ batch' = [batch EXCEPT !.sub = @ + 1, !.job[p] = batch.sub]

\* lines 161-164: for ind, extracted in tqdm(gen()): res, log = extracted; print(log) if res is None
Consume(b, p) ==
    LET c == call[p] IN
    IF c.pc = "raised"
    THEN [b EXCEPT !.pc = "raised", !.exc = c.exc, !.job[p] = 0]
    ELSE [b EXCEPT !.job[p] = 0,
                   !.out = Append(@, <<b.job[p] - 1, c.ret, c.log>>),
                   !.printed = IF c.ret = "none" THEN Append(@, c.log) ELSE @]

\* lines 155-159: the sequential driver calls disassemble in the caller's process
SeqCall ==
    /\ ~batch.multiprocessing
    /\ BatchCall(1)

\* line 159: yield ind, extracted (an exception of disassemble leaves the generator)
SeqYield ==
    /\ ~batch.multiprocessing
    /\ batch.pc = "run"
    /\ batch.job[1] /= 0
    /\ Ended(1)
    /\ batch' = Consume(batch, 1)
    /\ UNCHANGED <<cache, tmpDir, tmpOut, inputFile, call, ranBackend, cfgRes, resVars>>

\* the sequential generator is exhausted: disassemble_all returns
SeqReturn ==
    /\ ~batch.multiprocessing
    /\ batch.pc = "run"
    /\ batch.sub > Len(batch.files)
    /\ batch.job[1] = 0
    /\ batch' = [batch EXCEPT !.pc = "done"]
    /\ UNCHANGED <<cache, tmpDir, tmpOut, inputFile, call, ranBackend, cfgRes, resVars>>

\* lines 144-149: m_map hands the next file to a free worker of its pool
MapSubmit(p) ==
    /\ batch.multiprocessing
    /\ BatchCall(p)

\* lines 144-149: m_map yields (index, result) of a finished worker
MapYield(p) ==
    /\ batch.multiprocessing
    /\ batch.pc = "run"
    /\ batch.job[p] /= 0
    /\ Ended(p)
    /\ batch' = Consume(batch, p)
    /\ UNCHANGED <<cache, tmpDir, tmpOut, inputFile, call, ranBackend, cfgRes, resVars>>

\* lines 150-153: after m_map is exhausted: e.map() without a function raises TypeError
PoolMap ==
    /\ batch.multiprocessing
    /\ batch.pc = "run"
    /\ batch.sub > Len(batch.files)
    /\ \A p \in Workers : batch.job[p] = 0
    /\ batch' = [batch EXCEPT !.pc = "raised", !.exc = "TypeError"]
    /\ UNCHANGED <<cache, tmpDir, tmpOut, inputFile, call, ranBackend, cfgRes, resVars>>

\* a worker of the batch runs its disassemble call one step further
Work(p) ==
    /\ batch.pc = "run"
    /\ batch.job[p] /= 0
    /\ Step(p)

NextBatch ==
    \/ SeqCall
    \/ SeqYield
    \/ SeqReturn
    \/ PoolMap
    \/ \E p \in Workers : MapSubmit(p) \/ MapYield(p) \/ Work(p)

SpecBatch == InitBatch /\ [][NextBatch]_vars

\* ------------------------------------------------------------ _cfg called directly
\* the addresses of blocks and call targets
Addrs == {10, 20, 999}
\* b['calls']: the call targets of one block, in order
CallLists == {<<>>} \cup {<<a>> : a \in Addrs} \cup {<<a, b>> : a, b \in Addrs}
\* res['blocks']: up to MaxBlocks blocks, addr_start unique within the record
BlockLists ==
    UNION { { bl \in [1..n -> [addr_start : Addrs, calls : CallLists]] :
                \A i, j \in 1..n : bl[i].addr_start = bl[j].addr_start => i = j }
            : n \in 0..MaxBlocks }

InitCfg ==
    /\ InitFs(Files, Procs)
    /\ batch = NoBatch
    /\ NoResource
    /\ \E bl \in BlockLists : cfgRes = Rec("None", bl)

\* lines 25-31: self._cfg(res)
RunCfg ==
    /\ cfgRes.kind = "rec"
    /\ ~cfgRes.hasCfg
    /\ cfgRes' = Cfg(cfgRes)
    /\ UNCHANGED <<disVars, resVars>>

SpecCfg == InitCfg /\ [][RunCfg]_vars

\* ------------------------------------------------------------ ResourceAbstract
\* lines 32-40 and a subclass constructor: the descriptors, platforms and the
\* online flag (line 25) a process may run with
InitRes ==
    /\ InitFs(Files, Procs)
    /\ batch = NoBatch
    /\ cfgRes = Absent
    /\ disk = EmptyDisk
    /\ remote = [u \in Urls |-> 0]
    /\ now = 1
    /\ rcall = NoRCall
    /\ reg = NoReg
    /\ \E l \in {"None", UrlOf.linux}, w \in {"None", UrlOf.windows},
          m \in {"None", UrlOf.darwin}, d \in {"None", UrlOf.default},
          un \in BOOLEAN, cu \in BOOLEAN, pl \in Platforms, on \in BOOLEAN :
        desc = [NoDesc EXCEPT !.linux = l, !.windows = w, !.darwin = m,
                   !.default = d, !.unpack = un, !.check_update = cu,
                   !.platform = pl, !.online = on]

\* NeedDownload with download = True
NeedDownload_Always(f, url, meta) == TRUE

\* NeedDownload with url_date >= file_time
NeedDownload_NewerOrEqual(f, url, meta) ==
    IF ~f.exists THEN TRUE
    ELSE IF desc.check_update /\ desc.online /\ meta = "ok"
         THEN remote[url] >= f.mtime
         ELSE FALSE

\* NeedDownload with a failed update check read as "update"
NeedDownload_OnCheckError(f, url, meta) ==
    IF ~f.exists THEN TRUE
    ELSE IF desc.check_update /\ desc.online
         THEN meta /= "ok" \/ remote[url] > f.mtime
         ELSE FALSE

\* lines 62-84: download = not exists(file); the update check.
\* meta: the outcome of the metadata fetch, "ok" or "error"
NeedDownload(f, url, meta) ==
    IF ~f.exists THEN TRUE
    ELSE IF desc.check_update /\ desc.online /\ meta = "ok"
         THEN remote[url] > f.mtime
         ELSE FALSE
\* lines 63-65: the metadata fetch is made
ChecksUpdate(f) == f.exists /\ desc.check_update /\ desc.online

\* RemoveOld leaving the unpacked directory in place
RemoveOld_FileOnly(e) == [e EXCEPT !.file = NoFile]

\* lines 87-90: os.remove(file) and rmtree(file_unpack), each when it exists
RemoveOld(e) == [file |-> NoFile, unpacked |-> NoDir]

\* lines 47-101: _download(url, show_progress, unpack_if_needed, home)
\*   meta, dl, ex: the outcomes of the metadata fetch, of download_file and of
\*   the extractor ("ok" or "error")
Download(op, url, unpack_if_needed, home, meta, dl, ex) ==
    IF url = "None"
    THEN \* line 56: fn_from_url(None) raises
         /\ rcall' = [NoRCall EXCEPT !.op = op, !.outcome = "raised"]
         /\ UNCHANGED disk
    ELSE
      LET folder == FolderOf(home, desc.name)
          n == FnFromUrl(url)
          e0 == disk[folder][n]
          download == NeedDownload(e0.file, url, meta)
          metas == IF ChecksUpdate(e0.file) THEN 1 ELSE 0
          \* lines 86-91
          e1 == IF ~download THEN e0
                ELSE [RemoveOld(e0) EXCEPT
                         !.file = IF dl = "ok"
                                  THEN [exists |-> TRUE, mtime |-> now]
                                  ELSE NoFile]
          dlFailed == download /\ dl /= "ok"
          \* lines 93-99
          wantUnpack == desc.unpack /\ unpack_if_needed
          extract == wantUnpack /\ ~e1.unpacked.exists
          e2 == IF extract /\ ex = "ok"
                THEN [e1 EXCEPT !.unpacked = [exists |-> TRUE, from |-> e1.file.mtime]]
                ELSE e1
          exFailed == extract /\ ex /= "ok"
          r == [NoRCall EXCEPT !.op = op, !.url = url,
                   !.downloads = IF download THEN 1 ELSE 0, !.metas = metas,
                   !.check = IF ChecksUpdate(e0.file) THEN meta ELSE "none",
                   !.removed = download /\ e0.file.exists]
      IN
      IF dlFailed
      THEN /\ disk' = [disk EXCEPT ![folder][n] = e1]
           /\ rcall' = [r EXCEPT !.outcome = "raised"]
      ELSE /\ disk' = [disk EXCEPT ![folder][n] = e2]
           /\ rcall' = [r EXCEPT !.extracted = extract,
                           !.outcome = IF exFailed THEN "raised" ELSE "returned",
                           !.ret = IF exFailed THEN "None"
                                   ELSE IF wantUnpack THEN folder \o "/" \o n \o "_unpacked"
                                   ELSE folder \o "/" \o n]

\* the outcomes of an external call that is made (one outcome when it is not made)
Outcomes(made) == IF made THEN {"ok", "error"} ELSE {"ok"}
\* the local file and directory _download(url, ..., home) looks at
Target(url, home) ==
    IF url = "None" THEN [file |-> NoFile, unpacked |-> NoDir]
    ELSE disk[FolderOf(home, desc.name)][FnFromUrl(url)]

\* _download with the outcomes of the external calls it makes
Fetch(op, url, unpack_if_needed, home) ==
    LET t == Target(url, home) IN
    \E meta \in Outcomes(ChecksUpdate(t.file)) :
        LET download == url /= "None" /\ NeedDownload(t.file, url, meta) IN
        \E dl \in Outcomes(download) :
            \E ex \in Outcomes(desc.unpack /\ unpack_if_needed /\ dl = "ok"
                                  /\ (download \/ ~t.unpacked.exists)) :
                Download(op, url, unpack_if_needed, home, meta, dl, ex)

\* lines 43-44: the url of the running platform, else default
GetUrl == IF desc[desc.platform] /= "None" THEN desc[desc.platform] ELSE desc.default

\* lines 42-45: get()
Get ==
    /\ Fetch("get", GetUrl, TRUE, Home)
    /\ UNCHANGED <<disVars, cfgRes, desc, remote, now, reg>>

\* CacheUrl choosing as get() does, by the running platform
CacheUrl_ForPlatform == GetUrl

\* lines 104-110: default, overridden by linux, then darwin, then windows
CacheUrl ==
    LET u0 == desc.default
        u1 == IF desc.linux /= "None" THEN desc.linux ELSE u0
        u2 == IF desc.darwin /= "None" THEN desc.darwin ELSE u1
    IN IF desc.windows /= "None" THEN desc.windows ELSE u2

\* lines 103-113: cache(root)
Cache ==
    /\ \E root \in Roots : Fetch("cache", CacheUrl, FALSE, root)
    /\ UNCHANGED <<disVars, cfgRes, desc, remote, now, reg>>

\* the server publishes new content at a url of the descriptor: its Last-Modified
\* becomes the current time
Publish ==
    /\ \E u \in {GetUrl, CacheUrl} \ {"None"} :
          /\ remote[u] < now
          /\ remote' = [remote EXCEPT ![u] = now]
    /\ UNCHANGED <<disVars, cfgRes, desc, disk, now, rcall, reg>>

\* time passes
Tick ==
    /\ now < MaxTime
    /\ now' = now + 1
    /\ UNCHANGED <<disVars, cfgRes, desc, disk, remote, rcall, reg>>

NextRes == Get \/ Cache \/ Publish \/ Tick

SpecRes == InitRes /\ [][NextRes]_vars

\* ------------------------------------------------------------ require, cache_all
\* the names require() is asked for
Libraries == {"ghidra", "GHIDRA", "capa", "radare2"}
\* what the constructor of the k-th subclass may set
KindDescs(k) ==
    {[NoDesc EXCEPT !.name = KindNames[k], !.default = d, !.linux = l, !.unpack = un] :
        d \in {"None", UrlOf.default}, l \in {"None", UrlOf.linux}, un \in BOOLEAN}

InitReg ==
    /\ InitFs(Files, Procs)
    /\ batch = NoBatch
    /\ cfgRes = Absent
    /\ desc = NoDesc
    /\ disk = EmptyDisk
    /\ remote = [u \in Urls |-> 0]
    /\ now = 1
    /\ rcall = NoRCall
    /\ \E ks \in [DOMAIN KindNames -> UNION {KindDescs(k) : k \in DOMAIN KindNames}] :
          /\ \A k \in DOMAIN KindNames : ks[k] \in KindDescs(k)
          /\ reg = [NoReg EXCEPT !.kinds = ks]

RegFree == reg.pc \in {"idle", "returned", "raised"}
\* res(): the instance the constructor of the k-th subclass makes
Instance(k) == [reg.kinds[k] EXCEPT !.platform = desc.platform, !.online = desc.online]
\* lines 122-123: the subclasses whose lower-cased name is the lower-cased library
Matches(library) ==
    {k \in DOMAIN KindNames : Lower(KindNames[k]) = Lower(library)}
FirstMatch(library) ==
    CHOOSE k \in Matches(library) : \A j \in Matches(library) : k <= j

\* a caller invokes require(library)
RequireCall ==
    /\ RegFree
    /\ \E library \in Libraries :
          reg' = [NoReg EXCEPT !.kinds = reg.kinds, !.op = "require",
                     !.library = library, !.pc = "lookup"]
    /\ UNCHANGED <<disVars, cfgRes, desc, disk, remote, now, rcall>>

\* lines 122-124: the loop over the subclasses; res = res() on the first match;
\* the function ends after the loop when nothing matched (it returns None)
RequireLookup ==
    /\ reg.op = "require" /\ reg.pc = "lookup"
    /\ IF Matches(reg.library) = {}
       THEN /\ reg' = [reg EXCEPT !.pc = "returned", !.ret = "None"]
            /\ UNCHANGED desc
       ELSE /\ reg' = [reg EXCEPT !.pc = "call", !.i = FirstMatch(reg.library)]
            /\ desc' = Instance(FirstMatch(reg.library))
    /\ UNCHANGED <<disVars, cfgRes, disk, remote, now, rcall>>

\* line 125: return res.get()
RequireGet ==
    /\ reg.op = "require" /\ reg.pc = "call"
    /\ Fetch("get", GetUrl, TRUE, Home)
    /\ reg' = [reg EXCEPT !.pc = rcall'.outcome, !.ret = rcall'.ret,
                  !.exc = IF rcall'.outcome = "raised" THEN "get" ELSE "none"]
    /\ UNCHANGED <<disVars, cfgRes, desc, remote, now>>

\* a caller invokes cache_all(root)
CacheAllCall ==
    /\ RegFree
    /\ \E root \in Roots :
          reg' = [NoReg EXCEPT !.kinds = reg.kinds, !.op = "cache_all",
                     !.root = root, !.pc = "loop", !.i = 1]
    /\ UNCHANGED <<disVars, cfgRes, desc, disk, remote, now, rcall>>

\* lines 117-118: for res in __subclasses__(): res(); the function ends after the loop
CacheAllNext ==
    /\ reg.op = "cache_all" /\ reg.pc = "loop"
    /\ IF reg.i > Len(KindNames)
       THEN /\ reg' = [reg EXCEPT !.pc = "returned"]
            /\ UNCHANGED desc
       ELSE /\ reg' = [reg EXCEPT !.pc = "call"]
            /\ desc' = Instance(reg.i)
    /\ UNCHANGED <<disVars, cfgRes, disk, remote, now, rcall>>

\* line 118: .cache(root); an exception of cache() leaves cache_all
CacheAllCache ==
    /\ reg.op = "cache_all" /\ reg.pc = "call"
    /\ Fetch("cache", CacheUrl, FALSE, reg.root)
    /\ reg' = IF rcall'.outcome = "returned"
              THEN [reg EXCEPT !.pc = "loop", !.i = @ + 1, !.called = @ \cup {reg.i}]
              ELSE [reg EXCEPT !.pc = "raised", !.exc = "cache",
                               !.called = @ \cup {reg.i}]
    /\ UNCHANGED <<disVars, cfgRes, desc, remote, now>>

NextReg ==
    \/ RequireCall
    \/ RequireLookup
    \/ RequireGet
    \/ CacheAllCall
    \/ CacheAllNext
    \/ CacheAllCache

SpecReg == InitReg /\ [][NextReg]_vars

\* ============================================================ claims
\* the step of invocation p that reads, augments and rewrites the cache file
AugmentStep(p) == call[p].pc = "read" /\ call'[p].pc \in {"returned", "raised"}
\* the cache file of invocation p
CacheOf(p) == cache[call[p].file][call[p].ext]

\* invocation p runs the backend in this step
ProcessStep(p) == call[p].pc = "process" /\ call'[p].pc /= "process"

\* C1 as stated: over any sequence of disassemble calls on one file and suffix
\* the backend runs at most once in total for that cache path: it is never run
\* for a path it has been run for.
C1_AtMostOnceEver ==
    [][\A p \in DOMAIN call :
          ProcessStep(p) => ~ranBackend[call[p].file][call[p].ext]]_vars

\* C1 amended: over a sequence of disassemble calls the backend runs only in a
\* call that finds the cache file absent, while the file is absent; a call that
\* finds the cache file present never runs it.
C1_OnlyWhenCacheAbsent ==
    [][\A p \in DOMAIN call :
          /\ ProcessStep(p) => (~call[p].hit /\ CacheOf(p).kind = "absent")
          /\ ranBackend'[call[p].file][call[p].ext] /= ranBackend[call[p].file][call[p].ext]
                => ProcessStep(p)]_vars

\* C1 witness: a call has returned a result from a cache file that an earlier
\* call's backend run produced, without running the backend.
C1_Witness ==
    \E p \in DOMAIN call :
        /\ call[p].pc = "returned" /\ call[p].hit /\ call[p].ret /= "none"
        /\ ranBackend[call[p].file][call[p].ext]

C3_PureCacheRead ==
    [][\A p \in DOMAIN call :
          ( /\ AugmentStep(p) /\ call[p].hit /\ ~call[p].cleanup
            /\ CacheOf(p).kind = "rec" /\ CacheOf(p).f_type /= "None"
            /\ (call[p].cfg => CacheOf(p).hasCfg)
            /\ (call[p].capa => CacheOf(p).hasCapa) ) =>
              /\ ~call'[p].wrote
              /\ CacheOf(p)' = CacheOf(p)
              /\ call'[p].res = CacheOf(p)]_vars

\* C4 as stated: when a call with cleanup=true has ended, whatever the suffix,
\* its cache file does not exist and the input file is as it was.
C4_CleanupRemovesCacheFile ==
    \A p \in DOMAIN call :
        (Ended(p) /\ call[p].cleanup) =>
            /\ CacheOf(p).kind = "absent"
            /\ inputFile[call[p].file] = "original"

\* C5: when a call that took the cache-miss path has ended (returned a result,
\* returned (None, log) or raised), its workspace directory does not exist.
C5_WorkspaceRemoved ==
    \A p \in DOMAIN call :
        (Ended(p) /\ ~call[p].hit) => ~tmpDir[call[p].file][call[p].ext]

\* C5 witness: a cache-miss call has ended with (None, log) after its backend failed.
C5_Witness ==
    \E p \in DOMAIN call :
        /\ call[p].pc = "returned" /\ ~call[p].hit /\ call[p].ret = "none"
        /\ call[p].log = <<"backend failed">>

\* C6 as stated: with verbose <= 1 a call never raises; a failed call returns
\* (None, log) with the error in log.
C6_NeverRaisesQuietly ==
    \A p \in DOMAIN call :
        (Ended(p) /\ call[p].verbose <= 1) =>
            /\ call[p].pc = "returned"
            /\ call[p].ret = "none" => call[p].log /= <<>>

\* the yielded pairs cover every file of the batch exactly once
AllYieldedOnce ==
    /\ Len(batch.out) = Len(batch.files)
    /\ {batch.out[k][1] : k \in 1..Len(batch.out)} = 0..(Len(batch.files) - 1)

\* C7: at default verbosity a backend that throws never ends the batch: the call
\* returns an empty result, every empty result yielded has had its log printed,
\* and when the batch is over every file of the list has been run and yielded once.
C7_BatchIsolation ==
    batch.verbose <= 1 =>
        /\ batch.pc = "raised" => batch.exc /= "backend failed"
        /\ \A p \in DOMAIN call :
              (Ended(p) /\ call[p].log = <<"backend failed">>) =>
                  call[p].pc = "returned" /\ call[p].ret = "none"
        /\ \A k \in 1..Len(batch.out) :
              batch.out[k][2] = "none" =>
                  \E j \in 1..Len(batch.printed) : batch.printed[j] = batch.out[k][3]
        /\ (batch.pc = "done" \/ (batch.pc = "raised" /\ batch.exc = "TypeError")) =>
              AllYieldedOnce

\* C7 witness: a batch is over in which one file's backend threw (empty result,
\* log printed) and another file yielded its cache path.
C7_Witness ==
    /\ batch.pc \in {"done", "raised"}
    /\ batch.verbose <= 1
    /\ AllYieldedOnce
    /\ \E k, j \in 1..Len(batch.out) :
          /\ batch.out[k][2] = "none" /\ batch.out[k][3] = <<"backend failed">>
          /\ batch.out[j][2] = "path"
    /\ <<"backend failed">> \in {batch.printed[j] : j \in 1..Len(batch.printed)}

\* C8 as stated: with either driver, and no disassemble call raising,
\* disassemble_all yields one pair per file and then returns without raising.
C8_BatchReturnsNormally ==
    /\ batch.pc = "raised" => batch.exc /= "TypeError"
    /\ batch.pc = "done" => AllYieldedOnce

\* the pairs (index of b, call target c) over the blocks b from index i on and
\* over the calls c of b, in order
RECURSIVE AllCalls(_, _)
AllCalls(blocks, i) ==
    IF i > Len(blocks) THEN <<>>
    ELSE [k \in 1..Len(blocks[i].calls) |-> <<i - 1, blocks[i].calls[k]>>]
         \o AllCalls(blocks, i + 1)
\* some block of the record starts at address a
Resolves(blocks, a) == \E i \in 1..Len(blocks) : blocks[i].addr_start = a
\* the index of the block that starts at address a
IndexOfAddr(blocks, a) == (CHOOSE i \in 1..Len(blocks) : blocks[i].addr_start = a) - 1
ExpectedCfg(blocks) ==
    LET kept == SelectSeq(AllCalls(blocks, 1), LAMBDA e : Resolves(blocks, e[2]))
    IN [k \in 1..Len(kept) |-> <<kept[k][1], IndexOfAddr(blocks, kept[k][2])>>]

\* C9: the cfg _cfg writes is the sequence of pairs (index of b, index of the
\* block starting at c) over the blocks b in record order and the call targets c
\* of b that are the addr_start of a block; unresolved targets are dropped. For
\* [{addr 10, calls [20]}, {addr 20, calls [999]}] it is [(0,1)].
C9_CfgEdges ==
    /\ cfgRes.hasCfg => cfgRes.cfg = ExpectedCfg(cfgRes.blocks)
    /\ (cfgRes.hasCfg /\ cfgRes.blocks = ExampleBlocks) => cfgRes.cfg = << <<0, 1>> >>

\* C9 witness: _cfg has run on the example record, which has an unresolved target.
C9_Witness ==
    /\ cfgRes.hasCfg
    /\ cfgRes.blocks = ExampleBlocks
    /\ cfgRes.cfg = << <<0, 1>> >>

\* a descriptor with default=URL, no platform URL and check_update=false
DefaultOnly ==
    /\ desc.default /= "None"
    /\ desc.linux = "None" /\ desc.darwin = "None" /\ desc.windows = "None"
    /\ ~desc.check_update
\* the step is a get() call
GetStep == rcall'.op = "get" /\ remote' = remote /\ now' = now
\* the local file of the default url
DefaultFile == disk[FolderOf(Home, desc.name)][FnFromUrl(UrlOf.default)].file

\* C10: for a descriptor with default=URL, no platform URL and check_update=
\* false: a get() that finds the local file absent downloads exactly once and,
\* when it returns, has left the file in place; the file then stays, and every
\* get() that finds it makes no network call (no download, no metadata fetch);
\* every get() that returns returns the same path.
C10_DownloadOnce ==
    [][DefaultOnly =>
          /\ DefaultFile.exists => DefaultFile'.exists
          /\ GetStep =>
                /\ rcall'.metas = 0
                /\ rcall'.downloads = IF DefaultFile.exists THEN 0 ELSE 1
                /\ rcall'.outcome = "returned" =>
                      /\ DefaultFile'.exists
                      /\ rcall'.ret = Home \o "/ghidra/tool.zip"
                                        \o (IF desc.unpack THEN "_unpacked" ELSE "")
                      /\ (rcall.op = "get" /\ rcall.outcome = "returned") =>
                            rcall'.ret = rcall.ret]_vars

\* C10 witness: a get() has returned the path of a file that an earlier call
\* downloaded, without any network call.
C10_Witness ==
    /\ DefaultOnly
    /\ rcall.op = "get" /\ rcall.outcome = "returned"
    /\ rcall.downloads = 0 /\ rcall.metas = 0
    /\ DefaultFile.exists

\* the local file get() looks at
GetFile == disk[FolderOf(Home, desc.name)][FnFromUrl(GetUrl)].file

\* C11: with check_update=true, connectivity available and the local file
\* present, a get() whose update check obtains the remote Last-Modified time
\* deletes the file and downloads it again if and only if that time is strictly
\* newer than the file's modification time; when it is older or equal the file
\* is neither deleted nor downloaded.
C11_RedownloadIffNewer ==
    [][( /\ GetStep /\ GetUrl /= "None"
         /\ desc.check_update /\ desc.online /\ GetFile.exists
         /\ rcall'.check = "ok" ) =>
            IF remote[GetUrl] > GetFile.mtime
            THEN rcall'.removed /\ rcall'.downloads = 1
            ELSE ~rcall'.removed /\ rcall'.downloads = 0 /\ GetFile' = GetFile]_vars

\* C11 witness: a get() has found the remote content newer than the local file,
\* deleted the file and downloaded it again.
C11_Witness ==
    /\ rcall.op = "get" /\ rcall.check = "ok" /\ rcall.outcome = "returned"
    /\ rcall.removed /\ rcall.downloads = 1
    /\ GetFile.exists /\ GetFile.mtime > 1

\* the known kinds whose class name equals the library name ignoring case
KnownKinds(library) ==
    {k \in DOMAIN KindNames : Lower(KindNames[k]) = Lower(library)}

\* C12 as stated: a require(name) that has ended has, when a known kind's class
\* name equals name ignoring case, returned only the local path of that kind's
\* get(); when no known kind matches it has failed with UnknownResourceError
\* and not returned normally.
C12_RequireUnknownFails ==
    (reg.op = "require" /\ reg.pc \in {"returned", "raised"}) =>
        IF KnownKinds(reg.library) = {}
        THEN reg.pc = "raised" /\ reg.exc = "UnknownResourceError"
        ELSE /\ desc.name = KindNames[CHOOSE k \in KnownKinds(reg.library) : TRUE]
             /\ rcall.op = "get"
             /\ reg.pc = "returned" =>
                   /\ rcall.outcome = "returned"
                   /\ reg.ret = rcall.ret
                   /\ reg.ret /= "None"

\* the step is a _download call, made by get() or cache()
DownloadStep == rcall'.op \in {"get", "cache"} /\ remote' = remote /\ now' = now
\* the local file and the unpacked directory of the url u
LocalOf(u) == disk[FolderOf(Home, desc.name)][FnFromUrl(u)]
\* the path _download returns for the url u
PathOf(u, unpacked) ==
    FolderOf(Home, desc.name) \o "/" \o FnFromUrl(u) \o (IF unpacked THEN "_unpacked" ELSE "")

\* C13: a _download whose update check fails (the metadata fetch or the
\* Last-Modified header) treats it as no update: the local file is neither
\* deleted nor downloaded and stays as it was, the error does not propagate and
\* the call goes on as usual, returning the cached path (the unpacked directory
\* for a get() of an unpacking resource, which it extracts when missing).
C13_CheckFailureIsNoUpdate ==
    [][\A u \in Urls :
          (DownloadStep /\ rcall'.check = "error" /\ rcall'.url = u) =>
              /\ ~rcall'.removed /\ rcall'.downloads = 0
              /\ LocalOf(u).file.exists
              /\ LocalOf(u)'.file = LocalOf(u).file
              /\ ~rcall'.extracted =>
                    /\ rcall'.outcome = "returned"
                    /\ LocalOf(u)' = LocalOf(u)
              /\ rcall'.outcome = "returned" =>
                    rcall'.ret = PathOf(u, desc.unpack /\ rcall'.op = "get")]_vars

\* C13 witness: a call whose update check failed has returned the cached path
\* although the server holds content newer than the local file.
C13_Witness ==
    /\ rcall.op \in {"get", "cache"} /\ rcall.check = "error"
    /\ rcall.outcome = "returned" /\ rcall.downloads = 0
    /\ LocalOf(rcall.url).file.exists
    /\ remote[rcall.url] > LocalOf(rcall.url).file.mtime

\* invocation p enters disassemble in this step
EnterStep(p) == Free(p) /\ call'[p].pc \in {"read", "mkdir"}

\* C14: a call that finds the cache file existing when it starts takes the
\* cache-hit path and never invokes the backend, whatever the file holds. When
\* the content cannot be decompressed and parsed the call appends the failure to
\* its log and yields no record (it returns (None, log); at verbose > 1 the
\* error is re-raised after being logged), and with cleanup=false the cache file
\* is left as it was.
C14_ExistenceSentinel ==
    [][\A p \in DOMAIN call :
          /\ (EnterStep(p) /\ CacheOf(p)'.kind /= "absent") =>
                call'[p].hit /\ call'[p].pc = "read"
          /\ call[p].hit => (call[p].pc /= "process" /\ ~ProcessStep(p))
          /\ (AugmentStep(p) /\ call[p].hit /\ CacheOf(p).kind = "corrupt") =>
                /\ call'[p].ret = "none"
                /\ call'[p].log = <<"directly reading the generated json file",
                                    "Failed " \o call[p].file \o " msg: read_gz_js">>
                /\ call'[p].pc = (IF call[p].verbose > 1 THEN "raised" ELSE "returned")
                /\ ranBackend' = ranBackend
                /\ ~call[p].cleanup => cache' = cache]_vars

\* C14 witness: a call with cleanup=false that found an unreadable cache file
\* has returned (None, log) and the file is still there.
C14_Witness ==
    \E p \in DOMAIN call :
        /\ call[p].pc = "returned" /\ call[p].hit /\ ~call[p].cleanup
        /\ call[p].ret = "none" /\ Len(call[p].log) = 2
        /\ CacheOf(p).kind = "corrupt"

\* C15 as stated: when cache_all(root) has ended, cache(root) has been called
\* on every known resource kind, also when the cache(root) of one of them failed.
C15_CacheAllBestEffort ==
    (reg.op = "cache_all" /\ reg.pc \in {"returned", "raised"}) =>
        reg.called = DOMAIN KindNames

\* the step is a cache(root) call
CacheStep == rcall'.op = "cache" /\ remote' = remote /\ now' = now
\* the url of highest precedence: windows, else darwin, else linux, else default
PrecedenceUrl ==
    CASE desc.windows /= "None" -> desc.windows
      [] desc.windows = "None" /\ desc.darwin /= "None" -> desc.darwin
      [] desc.windows = "None" /\ desc.darwin = "None" /\ desc.linux /= "None" -> desc.linux
      [] OTHER -> desc.default

\* C16: whatever the running platform, cache(root) works on the URL chosen by
\* the precedence default, then linux, then darwin, then windows (windows wins
\* when set, default only when no platform URL is set): it downloads that URL's
\* file and no other, and it never unpacks: it extracts nothing, creates no
\* unpacked directory, and its _download ends at the file path.
C16_CachePrecedence ==
    [][CacheStep =>
          /\ rcall'.url = PrecedenceUrl
          /\ ~rcall'.extracted
          /\ \A n \in Names :
                /\ disk'[FolderOf(Home, desc.name)][n].unpacked.exists =>
                      disk[FolderOf(Home, desc.name)][n].unpacked.exists
                /\ (PrecedenceUrl = "None" \/ n /= FnFromUrl(PrecedenceUrl)) =>
                      disk'[FolderOf(Home, desc.name)][n] = disk[FolderOf(Home, desc.name)][n]
          /\ rcall'.outcome = "returned" =>
                /\ rcall'.ret = PathOf(PrecedenceUrl, FALSE)
                /\ LocalOf(PrecedenceUrl)'.file.exists]_vars

\* C16 witness: on linux, cache(root) of an unpacking resource with the linux
\* and windows URLs set has downloaded the windows file and unpacked nothing.
C16_Witness ==
    /\ rcall.op = "cache" /\ rcall.outcome = "returned" /\ rcall.downloads = 1
    /\ desc.platform = "linux" /\ desc.unpack
    /\ desc.linux /= "None" /\ desc.windows /= "None"
    /\ rcall.url = desc.windows
    /\ LocalOf(desc.windows).file.exists /\ ~LocalOf(desc.windows).unpacked.exists
    /\ ~LocalOf(desc.linux).file.exists

\* C17 as stated: a call that finds a cached record already carrying f_type in
\* its binary metadata leaves the stored f_type as it is, whatever file_type it
\* was passed, and does not rewrite the record on that account (it writes only
\* when it adds cfg or capa).
C17_FTypeSetOnce ==
    [][\A p \in DOMAIN call :
          ( /\ AugmentStep(p)
            /\ CacheOf(p).kind = "rec" /\ CacheOf(p).f_type /= "None" ) =>
              /\ CacheOf(p)'.kind = "rec" => CacheOf(p)'.f_type = CacheOf(p).f_type
              /\ call'[p].pc = "returned" /\ call'[p].ret /= "none" =>
                    call'[p].res.f_type = CacheOf(p).f_type
              /\ ( (call[p].cfg => CacheOf(p).hasCfg)
                   /\ (call[p].capa => CacheOf(p).hasCapa) ) => ~call'[p].wrote]_vars

\* invocation p leaves the finally block of the cache-miss branch in this step
RmtreeStep(p) == call[p].pc = "rmtree" /\ call'[p].pc /= "rmtree"

\* C18 as stated: when invocations overlap on one file and suffix, the one whose
\* mkdir finds the workspace directory present fails with the directory-already-
\* exists error and leaves that directory and its content as they are: it
\* removes only a workspace it created itself.
C18_OnlyOwnWorkspaceRemoved ==
    [][\A p \in DOMAIN call :
          (RmtreeStep(p) /\ call[p].exc = "FileExistsError") =>
              /\ tmpDir' = tmpDir /\ tmpOut' = tmpOut
              /\ call'[p].pc \in {"returned", "raised"}
              /\ call'[p].ret = "none"
              /\ call'[p].log = <<"FileExistsError">>]_vars

\* C19: after any sequence of get() and cache() calls, an unpacked directory
\* that exists was extracted from the file now cached beside it (a re-download
\* removes the old directory before the transfer), and a get() of an unpacking
\* resource that has returned has returned such a directory.
C19_UnpackedFromCurrentFile ==
    /\ \A d \in Folders, n \in Names :
          disk[d][n].unpacked.exists =>
              /\ disk[d][n].file.exists
              /\ disk[d][n].unpacked.from = disk[d][n].file.mtime
    /\ (rcall.op = "get" /\ rcall.outcome = "returned" /\ desc.unpack) =>
          /\ rcall.ret = PathOf(rcall.url, TRUE)
          /\ LocalOf(rcall.url).unpacked.exists

\* C19 witness: a get() of an unpacking resource has found newer content,
\* deleted the file and the directory extracted from it, downloaded again and
\* extracted the new file.
C19_Witness ==
    /\ rcall.op = "get" /\ rcall.outcome = "returned" /\ desc.unpack
    /\ rcall.removed /\ rcall.downloads = 1 /\ rcall.extracted
    /\ LocalOf(rcall.url).unpacked.exists
    /\ LocalOf(rcall.url).unpacked.from > 1

\* C20 as stated: when a call that missed the cache and whose backend returned
\* has itself returned, every log entry the backend returned is in the log the
\* call returns.
C20_BackendLogReturned ==
    \A p \in DOMAIN call :
        (call[p].pc = "returned" /\ ~call[p].hit /\ call[p].out_log /= <<>>) =>
            \A i \in 1..Len(call[p].out_log) :
                \E j \in 1..Len(call[p].log) : call[p].log[j] = call[p].out_log[i]

====
